---------------------------- MODULE Spec2Model ----------------------------
(***************************************************************************)
(* Model of src/src/hooks/useVotingSession.ts: the useVotingSession hook.  *)
(*                                                                         *)
(* The state machine is the reducer's VotingState (variable state) plus    *)
(* the position of every asynchronous piece of the hook: the bootstrap     *)
(* effect (one pc and its locals), the realtime handlers whose re-fetch is *)
(* in flight, and the castVote calls whose RPC is in flight.  JavaScript   *)
(* is single threaded, so one action is one synchronous run of a callback  *)
(* or of the continuation after an await.                                  *)
(***************************************************************************)
EXTENDS Integers, Sequences, FiniteSets, TLC

\* ---------------------------------------------------------------- bounds
NumPolls == 2       \* polls of the store: ids 1..NumPolls
NumVans == 2        \* vans of the store: ids 1..NumVans
MaxCount == 1       \* cap on one van's count (snapshot rows and increments)
MaxInflight == 1    \* cap on the calls of one kind in flight at a time
AggNumIds == 2      \* keys of a counts mapping given to derivePercentages
AggMaxCount == 23   \* largest count in such a mapping
MaxTrace == 2       \* vote deltas applied in a row to one reducer state
MaxQueue == 2       \* vote notifications of the store not yet delivered

\* ---------------------------------------------------------------- values
NoId == 0                                   \* null (string | null ids)
NoPoll == [id |-> NoId, month_year |-> NoId]  \* poll: null
NoError == "<null>"                          \* error: null

PollIds == 1..NumPolls
VanIds == 1..NumVans
Months == 1..NumPolls

\* Poll rows of the store: the period key of poll i is i.
Polls == {[id |-> i, month_year |-> i] : i \in PollIds}

\* Van.poll_id: the poll a van belongs to.
VanPoll(v) == ((v - 1) % NumPolls) + 1
VansOf(pollId) == {v \in VanIds : VanPoll(v) = pollId}
VansOfMonth(m) == {v \in VanIds : \E p \in Polls : p.month_year = m /\ p.id = VanPoll(v)}

TransportErrors == {"network"}          \* error.message of a failed rpc
BusinessErrors == {"already voted"}     \* data.error of a rejected vote

Statuses == {"idle", "submitting", "voted", "error"}

\* ------------------------------------------------------------- helpers
RECURSIVE SumOver(_, _)
SumOver(f, S) ==
    IF S = {} THEN 0
    ELSE LET k == CHOOSE x \in S : TRUE IN f[k] + SumOver(f, S \ {k})

\* Object.values(counts).reduce((s, n) => s + n, 0)
SumValues(counts) == SumOver(counts, DOMAIN counts)

Max(a, b) == IF a >= b THEN a ELSE b

\* A set of van ids as the list `.order("created_at")` returns it
\* (vans are created in id order).
RECURSIVE Ordered(_)
Ordered(S) ==
    IF S = {} THEN << >>
    ELSE LET m == CHOOSE x \in S : \A y \in S : x <= y
         IN <<m>> \o Ordered(S \ {m})

Range(s) == {s[i] : i \in DOMAIN s}

EmptyMap == [v \in {} |-> 0]

\* ---------------------------------------------------------------- state
VARIABLES
    state,          \* VotingState held by useReducer
    pollRef,        \* pollRef.current
    cancelled,      \* the bootstrap effect's `cancelled`; TRUE from unmount on,
                    \* when the channels are removed too
    bootPc,         \* where bootstrap() is suspended
    bootPoll,       \* bootstrap's local `poll`
    bootVans,       \* bootstrap's local `vans` (live until step 1c)
    pollsFetch,     \* polls-realtime handlers awaiting their vans fetch,
                    \*   per new poll id
    vansFetch,      \* vans-realtime handlers awaiting their vans fetch,
                    \*   per captured poll id
    rpc,            \* castVote calls awaiting cast_vote, per van id
    last,           \* history: the last call of dispatch (who, what, and
                    \*   whether the component was unmounted by then)
    aggCall,        \* AggSpec: one call of derivePercentages (argument, result)
    deltaRun,       \* DeltaSpec: a reducer state and the vote deltas applied
                    \*   to it in a row (the states passed, the actions)
    store,          \* StoreSpec: votes of the displayed period in the store,
                    \*   per van
    queue,          \* StoreSpec: the store's vote notifications on their way
                    \*   to the votes channel, oldest first
    snapshot,       \* StoreSpec: the rows the vote_counts query of step 1c
                    \*   read, while its answer is on its way
    skew            \* StoreSpec, history: a notification was delivered on the
                    \*   other side of COUNTS_LOADED than its write was of the
                    \*   vote_counts read

hookVars == <<state, pollRef, cancelled, bootPc, bootPoll, bootVans,
              pollsFetch, vansFetch, rpc, last>>
storeVars == <<store, queue, snapshot, skew>>
vars == <<state, pollRef, cancelled, bootPc, bootPoll, bootVans,
          pollsFetch, vansFetch, rpc, last,
          aggCall, deltaRun, store, queue, snapshot, skew>>

\* (n / total) * 100 in IEEE doubles falls just below the exact quotient
\* k + 1/2.  For total < 200 that is so exactly when n/total = 23/40
\* (0.575 * 100 = 57.49999999999999); every other half is exact or above.
BelowHalfInDoubles(n, total) == 40 * n = 23 * total

\* RoundPct that drops the fraction
RoundPctTruncating(n, total) == (100 * n) \div total

\* Math.round((n / total) * 100) for 0 <= n <= total, 0 < total < 200.
\* Math.round rounds halves up, applied to the double.
RoundPct(n, total) ==
    IF BelowHalfInDoubles(n, total)
    THEN (100 * n) \div total
    ELSE (200 * n + total) \div (2 * total)

derivePercentages(counts) ==
    LET total == SumValues(counts) IN
    [percentages |-> [id \in DOMAIN counts |->
                         IF total = 0 THEN 0 ELSE RoundPct(counts[id], total)],
     totalVotes |-> total]

initialState ==
    [poll |-> NoPoll, vans |-> << >>, voteCounts |-> EmptyMap,
     userVanId |-> NoId, totalVotes |-> 0, percentages |-> EmptyMap,
     status |-> "idle", error |-> NoError,
     isLoadingPoll |-> TRUE, isLoadingCounts |-> TRUE]


\* --------------------------------------------------------------- reducer
\* One operator per case of reducer(state, action).

PollLoaded(s, a) ==
    [s EXCEPT !.poll = a.poll, !.vans = a.vans, !.isLoadingPoll = FALSE]

\* NoActivePoll that leaves the counts marked loading
NoActivePollStillLoading(s, a) ==
    [s EXCEPT !.poll = NoPoll, !.vans = << >>, !.voteCounts = EmptyMap,
              !.isLoadingPoll = FALSE]

NoActivePoll(s, a) ==
    [s EXCEPT !.poll = NoPoll, !.vans = << >>, !.voteCounts = EmptyMap,
              !.isLoadingPoll = FALSE, !.isLoadingCounts = FALSE]

CountsLoaded(s, a) ==
    LET d == derivePercentages(a.counts) IN
    [s EXCEPT !.voteCounts = a.counts, !.percentages = d.percentages,
              !.totalVotes = d.totalVotes, !.isLoadingCounts = FALSE]

\* action.vanId ? "voted" : "idle"
UserVoteLoaded(s, a) ==
    [s EXCEPT !.userVanId = a.vanId,
              !.status = IF a.vanId # NoId THEN "voted" ELSE "idle"]

\* state.voteCounts[action.vanId] ?? 0
CountOf(counts, vanId) == IF vanId \in DOMAIN counts THEN counts[vanId] ELSE 0

\* NextCount without the floor at 0
NextCountNoFloor(counts, vanId, delta) == CountOf(counts, vanId) + delta

\* Math.max(0, (state.voteCounts[action.vanId] ?? 0) + action.delta)
NextCount(counts, vanId, delta) == Max(0, CountOf(counts, vanId) + delta)

\* CountUpdated without `...state.voteCounts` in `updated`
CountUpdatedNoSpread(s, a) ==
    LET updated == [v \in {a.vanId} |->
                       NextCount(s.voteCounts, a.vanId, a.delta)]
        d == derivePercentages(updated)
    IN [s EXCEPT !.voteCounts = updated, !.percentages = d.percentages,
                 !.totalVotes = d.totalVotes]

CountUpdated(s, a) ==
    LET updated == [v \in (DOMAIN s.voteCounts) \cup {a.vanId} |->
                       IF v = a.vanId
                       THEN NextCount(s.voteCounts, a.vanId, a.delta)
                       ELSE s.voteCounts[v]]
        d == derivePercentages(updated)
    IN [s EXCEPT !.voteCounts = updated, !.percentages = d.percentages,
                 !.totalVotes = d.totalVotes]

\* PollReplaced that keeps the user's vote slot and the status
PollReplacedKeepsVote(s, a) ==
    [s EXCEPT !.poll = a.poll, !.vans = a.vans, !.voteCounts = EmptyMap,
              !.percentages = EmptyMap, !.totalVotes = 0,
              !.isLoadingCounts = TRUE]

PollReplaced(s, a) ==
    [s EXCEPT !.poll = a.poll, !.vans = a.vans, !.voteCounts = EmptyMap,
              !.percentages = EmptyMap, !.totalVotes = 0, !.userVanId = NoId,
              !.status = "idle", !.isLoadingCounts = TRUE]

Submitting(s, a) == [s EXCEPT !.status = "submitting", !.error = NoError]

\* VoteSuccess that also counts the vote at once
VoteSuccessCounting(s, a) ==
    LET updated == [v \in (DOMAIN s.voteCounts) \cup {a.vanId} |->
                       IF v = a.vanId THEN CountOf(s.voteCounts, v) + 1
                       ELSE s.voteCounts[v]]
        d == derivePercentages(updated)
    IN [s EXCEPT !.status = "voted", !.userVanId = a.vanId,
                 !.voteCounts = updated, !.percentages = d.percentages,
                 !.totalVotes = d.totalVotes]

VoteSuccess(s, a) == [s EXCEPT !.status = "voted", !.userVanId = a.vanId]

VoteError(s, a) == [s EXCEPT !.status = "error", !.error = a.error]

\* ClearErrorCase that returns to the state before any vote
ClearErrorForgetsVote(s, a) ==
    [s EXCEPT !.status = "idle", !.error = NoError, !.userVanId = NoId]

ClearErrorCase(s, a) == [s EXCEPT !.status = "idle", !.error = NoError]

reducer(s, a) ==
    CASE a.type = "POLL_LOADED" -> PollLoaded(s, a)
      [] a.type = "NO_ACTIVE_POLL" -> NoActivePoll(s, a)
      [] a.type = "COUNTS_LOADED" -> CountsLoaded(s, a)
      [] a.type = "USER_VOTE_LOADED" -> UserVoteLoaded(s, a)
      [] a.type = "COUNT_UPDATED" -> CountUpdated(s, a)
      [] a.type = "POLL_REPLACED" -> PollReplaced(s, a)
      [] a.type = "SUBMITTING" -> Submitting(s, a)
      [] a.type = "VOTE_SUCCESS" -> VoteSuccess(s, a)
      [] a.type = "VOTE_ERROR" -> VoteError(s, a)
      [] a.type = "CLEAR_ERROR" -> ClearErrorCase(s, a)
      [] OTHER -> s

\* ---------------------------------------------------------------- dispatch
\* Dispatch with handlers that keep the poll they saw when they subscribed
DispatchStaleRef(who, a) ==
    /\ state' = IF cancelled THEN state ELSE reducer(state, a)
    /\ pollRef' = pollRef
    /\ last' = [act |-> who, type |-> a.type, late |-> cancelled]

\* dispatch(action) from callback `who`, and the render it causes, which runs
\* `pollRef.current = state.poll`.  React drops an update dispatched to a
\* component that is unmounted; `last` records the call all the same.
Dispatch(who, a) ==
    /\ state' = IF cancelled THEN state ELSE reducer(state, a)
    /\ pollRef' = state'.poll
    /\ last' = [act |-> who, type |-> a.type, late |-> cancelled]

\* the callback dispatches nothing
NoDispatch == UNCHANGED <<state, pollRef, last>>

\* the number of calls in flight in one of pollsFetch, vansFetch, rpc
InFlight(f) == SumOver(f, DOMAIN f)

\* What `supabase.from("vans").select("*").eq("poll_id", id).order(...)` can
\* answer: an error (data null), or the vans the poll has at that moment.
VansResults(pollId) ==
    {[ok |-> FALSE, vans |-> << >>]}
    \cup {[ok |-> TRUE, vans |-> Ordered(S)] : S \in SUBSET VansOf(pollId)}

PollById(id) == CHOOSE p \in Polls : p.id = id

\* the hook right after its first render, both effects started
HookInit ==
    /\ state = initialState
    /\ pollRef = NoPoll
    /\ cancelled = FALSE
    /\ bootPc = "poll"
    /\ bootPoll = NoPoll
    /\ bootVans = << >>
    /\ pollsFetch = [i \in PollIds |-> 0]
    /\ vansFetch = [i \in PollIds |-> 0]
    /\ rpc = [v \in VanIds |-> 0]
    /\ last = [act |-> "none", type |-> "NONE", late |-> FALSE]

\* no call of derivePercentages made yet, on the argument `counts`
AggPending(counts) ==
    [counts |-> counts, called |-> FALSE,
     result |-> [percentages |-> EmptyMap, totalVotes |-> 0]]

\* the vote_counts query of step 1c has not read yet
NotRead == [read |-> FALSE, rows |-> EmptyMap]

\* the variables of AggSpec, DeltaSpec and StoreSpec at rest
AtRest ==
    /\ aggCall = AggPending(EmptyMap)
    /\ deltaRun = [states |-> <<initialState>>, trace |-> << >>]
    /\ store = [v \in {} |-> 0]
    /\ queue = << >>
    /\ snapshot = NotRead
    /\ skew = FALSE

Resting == UNCHANGED <<aggCall, deltaRun, store, queue, snapshot, skew>>

Init == HookInit /\ AtRest

\* -------------------------------------------------------------- bootstrap
\* bootstrap() returns: at one of its `if (cancelled ...) return`s with the
\* flag set ("cancelled"), or otherwise ("done").
BootDone ==
    /\ bootPc' = IF cancelled THEN "cancelled" ELSE "done"
    /\ bootPoll' = NoPoll
    /\ bootVans' = << >>
    /\ UNCHANGED <<cancelled, pollsFetch, vansFetch, rpc>>

\* 1a: the active-poll query returns {data: poll, error: pollErr}.
BootstrapPoll(poll, pollErr) ==
    /\ bootPc = "poll"
    /\ pollErr => poll = NoPoll
    /\ IF cancelled
       THEN NoDispatch /\ BootDone
       ELSE IF pollErr \/ poll = NoPoll
       THEN /\ Dispatch("BootstrapPoll", [type |-> "NO_ACTIVE_POLL"])
            /\ BootDone
       ELSE /\ NoDispatch
            /\ bootPc' = "vans"
            /\ bootPoll' = poll
            /\ UNCHANGED <<cancelled, bootVans, pollsFetch, vansFetch, rpc>>

\* 1b: the vans query returns {data: vans, error: vansErr}.
BootstrapVans(res) ==
    /\ bootPc = "vans"
    /\ res \in VansResults(bootPoll.id)
    /\ IF cancelled \/ ~res.ok
       THEN NoDispatch /\ BootDone
       ELSE /\ Dispatch("BootstrapVans",
                        [type |-> "POLL_LOADED", poll |-> bootPoll, vans |-> res.vans])
            /\ bootPc' = "counts"
            /\ bootVans' = res.vans
            /\ UNCHANGED <<cancelled, bootPoll, pollsFetch, vansFetch, rpc>>

\* The aggregate rows the vote_counts view can hold for a period: a count per
\* van of the period that has votes.
CountRows(month) ==
    UNION {[S -> 0..MaxCount] : S \in SUBSET VansOfMonth(month)}

\* SeededCounts that leaves the rows out
SeededCountsNoRows(vans, rows) == [v \in Range(vans) |-> 0]

\* counts seeded with 0 for every fetched van, then overwritten by the rows
SeededCounts(vans, rows) ==
    [v \in Range(vans) \cup DOMAIN rows |->
        IF v \in DOMAIN rows THEN rows[v] ELSE 0]

\* 1c: the vote_counts query returns {data: rows, error: countsErr}.
BootstrapCounts(ok, rows) ==
    /\ bootPc = "counts"
    /\ rows \in CountRows(bootPoll.month_year)
    /\ ~ok => rows = EmptyMap
    /\ IF cancelled
       THEN NoDispatch /\ BootDone
       ELSE /\ IF ok
               THEN Dispatch("BootstrapCounts",
                             [type |-> "COUNTS_LOADED",
                              counts |-> SeededCounts(bootVans, rows)])
               ELSE NoDispatch
            /\ bootPc' = "user"
            /\ bootVans' = << >>
            /\ UNCHANGED <<cancelled, bootPoll, pollsFetch, vansFetch, rpc>>

\* 1d: supabase.auth.getUser() resolves, with a user or without.
BootstrapUser(user) ==
    /\ bootPc = "user"
    /\ NoDispatch
    /\ IF cancelled \/ ~user
       THEN BootDone
       ELSE /\ bootPc' = "vote"
            /\ UNCHANGED <<cancelled, bootPoll, bootVans, pollsFetch, vansFetch, rpc>>

\* BootstrapVote without its `if (cancelled) return`
BootstrapVoteUnguarded(vanId) ==
    /\ bootPc = "vote"
    /\ vanId \in {NoId} \cup VansOfMonth(bootPoll.month_year)
    /\ Dispatch("BootstrapVote", [type |-> "USER_VOTE_LOADED", vanId |-> vanId])
    /\ BootDone

\* 1d: the existing-vote query returns the user's vote of the period, or none.
BootstrapVote(vanId) ==
    /\ bootPc = "vote"
    /\ vanId \in {NoId} \cup VansOfMonth(bootPoll.month_year)
    /\ IF cancelled
       THEN NoDispatch
       ELSE Dispatch("BootstrapVote", [type |-> "USER_VOTE_LOADED", vanId |-> vanId])
    /\ BootDone

\* ------------------------------------------------------ realtime handlers
\* `currentPoll && row.month_year === currentPoll.month_year`
SamePeriod(currentPoll, row) ==
    currentPoll # NoPoll /\ row.month_year = currentPoll.month_year

VoteRows == [van_id : VanIds, month_year : Months]

\* the body of the INSERT callback
OnVoteInsert(row) ==
    IF SamePeriod(pollRef, row)
    THEN Dispatch("VoteInserted",
                  [type |-> "COUNT_UPDATED", vanId |-> row.van_id, delta |-> 1])
    ELSE NoDispatch

\* the body of the DELETE callback
OnVoteDelete(row) ==
    IF SamePeriod(pollRef, row)
    THEN Dispatch("VoteDeleted",
                  [type |-> "COUNT_UPDATED", vanId |-> row.van_id, delta |-> -1])
    ELSE NoDispatch

\* 2a: INSERT on votes; payload.new is `row`.  (The count stays within
\* MaxCount: an insert that would pass it is not delivered.)
VoteInserted(row) ==
    /\ ~cancelled
    /\ row \in VoteRows
    /\ SamePeriod(pollRef, row) => CountOf(state.voteCounts, row.van_id) < MaxCount
    /\ OnVoteInsert(row)
    /\ UNCHANGED <<cancelled, bootPc, bootPoll, bootVans, pollsFetch, vansFetch, rpc>>

\* 2a: DELETE on votes; payload.old is `row`.
VoteDeleted(row) ==
    /\ ~cancelled
    /\ row \in VoteRows
    /\ OnVoteDelete(row)
    /\ UNCHANGED <<cancelled, bootPc, bootPoll, bootVans, pollsFetch, vansFetch, rpc>>

PollEvents == [eventType : {"INSERT", "UPDATE", "DELETE"}, id : PollIds,
               is_active : BOOLEAN]

\* payload.eventType === "INSERT" ||
\*   (payload.eventType === "UPDATE" && payload.new.is_active === true)
BecomesActive(payload) ==
    \/ payload.eventType = "INSERT"
    \/ payload.eventType = "UPDATE" /\ payload.is_active

\* 2b: a change on polls arrives; the handler runs up to its await.
PollChanged(payload) ==
    /\ ~cancelled
    /\ payload \in PollEvents
    /\ NoDispatch
    /\ IF BecomesActive(payload)
       THEN /\ InFlight(pollsFetch) < MaxInflight
            /\ pollsFetch' = [pollsFetch EXCEPT ![payload.id] = @ + 1]
       ELSE UNCHANGED pollsFetch
    /\ UNCHANGED <<cancelled, bootPc, bootPoll, bootVans, vansFetch, rpc>>

\* 2b: the handler's vans fetch returns {data: vans}; `vans ?? []`.
PollChangedFetched(id, res) ==
    /\ pollsFetch[id] > 0
    /\ res \in VansResults(id)
    /\ pollsFetch' = [pollsFetch EXCEPT ![id] = @ - 1]
    /\ Dispatch("PollChangedFetched",
                [type |-> "POLL_REPLACED", poll |-> PollById(id),
                 vans |-> IF res.ok THEN res.vans ELSE << >>])
    /\ UNCHANGED <<cancelled, bootPc, bootPoll, bootVans, vansFetch, rpc>>

\* 2c: a change on vans arrives; the handler runs up to its await.
VansChanged ==
    /\ ~cancelled
    /\ NoDispatch
    /\ IF pollRef = NoPoll
       THEN UNCHANGED vansFetch
       ELSE /\ InFlight(vansFetch) < MaxInflight
            /\ vansFetch' = [vansFetch EXCEPT ![pollRef.id] = @ + 1]
    /\ UNCHANGED <<cancelled, bootPc, bootPoll, bootVans, pollsFetch, rpc>>

\* 2c: the handler's vans fetch returns {data: vans}; `if (vans)`.
VansChangedFetched(id, res) ==
    /\ vansFetch[id] > 0
    /\ res \in VansResults(id)
    /\ vansFetch' = [vansFetch EXCEPT ![id] = @ - 1]
    /\ IF res.ok
       THEN Dispatch("VansChangedFetched",
                     [type |-> "POLL_REPLACED", poll |-> PollById(id),
                      vans |-> res.vans])
       ELSE NoDispatch
    /\ UNCHANGED <<cancelled, bootPc, bootPoll, bootVans, pollsFetch, rpc>>

\* ---------------------------------------------------------------- castVote
\* 3: castVote(vanId) up to its await.  The caller offers the vans on display.
CastVote(vanId) ==
    /\ ~cancelled
    /\ vanId \in Range(state.vans)
    /\ InFlight(rpc) < MaxInflight
    /\ Dispatch("CastVote", [type |-> "SUBMITTING"])
    /\ rpc' = [rpc EXCEPT ![vanId] = @ + 1]
    /\ UNCHANGED <<cancelled, bootPc, bootPoll, bootVans, pollsFetch, vansFetch>>

\* What cast_vote can answer: {data, error} with a transport error, or data
\* carrying a business error, or neither.
RpcResults ==
    {[error |-> e, dataError |-> NoError] : e \in TransportErrors}
    \cup {[error |-> NoError, dataError |-> b] : b \in BusinessErrors \cup {NoError}}

\* CastVoteOutcome without the check of data.error
CastVoteOutcomeNoDataError(vanId, res) ==
    IF res.error # NoError
    THEN [type |-> "VOTE_ERROR", error |-> res.error]
    ELSE [type |-> "VOTE_SUCCESS", vanId |-> vanId]

\* the action castVote dispatches when cast_vote has answered `res`
CastVoteOutcome(vanId, res) ==
    IF res.error # NoError
    THEN [type |-> "VOTE_ERROR", error |-> res.error]
    ELSE IF res.dataError # NoError
    THEN [type |-> "VOTE_ERROR", error |-> res.dataError]
    ELSE [type |-> "VOTE_SUCCESS", vanId |-> vanId]

\* CastVoteReturned that returns without a dispatch on a business error
CastVoteReturnedSilentReject(vanId, res) ==
    /\ rpc[vanId] > 0
    /\ res \in RpcResults
    /\ rpc' = [rpc EXCEPT ![vanId] = @ - 1]
    /\ IF res.error = NoError /\ res.dataError # NoError
       THEN NoDispatch
       ELSE Dispatch("CastVoteReturned", CastVoteOutcome(vanId, res))
    /\ UNCHANGED <<cancelled, bootPc, bootPoll, bootVans, pollsFetch, vansFetch>>

\* 3: cast_vote returns.
CastVoteReturned(vanId, res) ==
    /\ rpc[vanId] > 0
    /\ res \in RpcResults
    /\ rpc' = [rpc EXCEPT ![vanId] = @ - 1]
    /\ Dispatch("CastVoteReturned", CastVoteOutcome(vanId, res))
    /\ UNCHANGED <<cancelled, bootPc, bootPoll, bootVans, pollsFetch, vansFetch>>

clearError ==
    /\ ~cancelled
    /\ Dispatch("clearError", [type |-> "CLEAR_ERROR"])
    /\ UNCHANGED <<cancelled, bootPc, bootPoll, bootVans, pollsFetch, vansFetch, rpc>>

\* The component unmounts: both effects' cleanups run.
Unmount ==
    /\ ~cancelled
    /\ cancelled' = TRUE
    /\ NoDispatch
    /\ UNCHANGED <<bootPc, bootPoll, bootVans, pollsFetch, vansFetch, rpc>>

Next ==
    \/ \E poll \in Polls \cup {NoPoll}, pollErr \in BOOLEAN : BootstrapPoll(poll, pollErr) /\ Resting
    \/ \E res \in VansResults(bootPoll.id) : BootstrapVans(res) /\ Resting
    \/ \E ok \in BOOLEAN, rows \in CountRows(bootPoll.month_year) : BootstrapCounts(ok, rows) /\ Resting
    \/ \E user \in BOOLEAN : BootstrapUser(user) /\ Resting
    \/ \E vanId \in {NoId} \cup VanIds : BootstrapVote(vanId) /\ Resting
    \/ \E row \in VoteRows : VoteInserted(row) /\ Resting
    \/ \E row \in VoteRows : VoteDeleted(row) /\ Resting
    \/ \E payload \in PollEvents : PollChanged(payload) /\ Resting
    \/ \E id \in PollIds : \E res \in VansResults(id) : PollChangedFetched(id, res) /\ Resting
    \/ VansChanged /\ Resting
    \/ \E id \in PollIds : \E res \in VansResults(id) : VansChangedFetched(id, res) /\ Resting
    \/ \E vanId \in VanIds : CastVote(vanId) /\ Resting
    \/ \E vanId \in VanIds, res \in RpcResults : CastVoteReturned(vanId, res) /\ Resting
    \/ clearError /\ Resting
    \/ Unmount /\ Resting

Spec == Init /\ [][Next]_vars

\* Every cast_vote call returns: an rpc in flight does not stay in flight
\* for ever.
RpcReturns ==
    \E vanId \in VanIds, res \in RpcResults : CastVoteReturned(vanId, res) /\ Resting

FairSpec == Spec /\ WF_vars(RpcReturns)

\* ------------------------------------------------------------- properties
\* the session is alive: a dispatch reaches the reducer
Mounted == ~cancelled

\* the last call of dispatch reached the reducer, with an action of type t
Applied(t) == last.type = t /\ ~last.late

\* voteCounts, percentages and totalVotes are the same after the step
TallyUnchanged ==
    /\ state'.voteCounts = state.voteCounts
    /\ state'.percentages = state.percentages
    /\ state'.totalVotes = state.totalVotes

\* C1: in every reachable state totalVotes is the sum of voteCounts and
\* percentages is the aggregator's projection of voteCounts.
C1_TallyIsProjection ==
    /\ state.totalVotes = SumValues(state.voteCounts)
    /\ DOMAIN state.percentages = DOMAIN state.voteCounts
    /\ \A id \in DOMAIN state.voteCounts :
          state.percentages[id] =
             IF state.totalVotes = 0 THEN 0
             ELSE RoundPct(state.voteCounts[id], state.totalVotes)

\* C2: with non-negative snapshot rows, no count in voteCounts is ever
\* negative, whatever vote events were applied and in whatever order.
C2_CountsNonNegative ==
    \A id \in DOMAIN state.voteCounts : state.voteCounts[id] >= 0

\* C2 witness: a vote-removed event was applied and left a count at 0 while
\* nothing is counted at all (no count was there to take the vote from).
C2_Witness ==
    /\ last.act = "VoteDeleted" /\ Applied("COUNT_UPDATED")
    /\ state.totalVotes = 0
    /\ \E id \in DOMAIN state.voteCounts : id \notin Range(state.vans)

\* C3: when the bootstrap's existing-vote lookup or a submit completes, the
\* vote it puts in the user's vote slot is a vote of the poll on display,
\* never one of a poll that a poll-change event has replaced meanwhile.
C3_NoVoteOfReplacedPoll ==
    (/\ last.act \in {"BootstrapVote", "CastVoteReturned"}
     /\ ~last.late
     /\ state.poll # NoPoll
     /\ state.userVanId # NoId)
    => VanPoll(state.userVanId) = state.poll.id

\* C4: the option-list-change handler's dispatch leaves voteCounts,
\* percentages, totalVotes, the user's vote slot and status as they were.
C4_VansChangeKeepsTally ==
    [][\A id \in PollIds : \A res \in VansResults(id) :
          (Mounted /\ VansChangedFetched(id, res))
          => /\ TallyUnchanged
             /\ state'.userVanId = state.userVanId
             /\ state'.status = state.status]_vars

\* C5: a vote-created event changes the state exactly when a poll is on
\* display at delivery and the event's period key is that poll's; then the
\* event's option gains 1 and every other count stays; else nothing changes.
\* (First conjunct: the handler's guard, read from pollRef, decides as the
\* poll in the state does.  Second: what a delivery does in either case.)
C5_VoteCreatedEffect ==
    /\ [](\A row \in VoteRows :
            SamePeriod(pollRef, row)
            <=> (state.poll # NoPoll /\ row.month_year = state.poll.month_year))
    /\ [][\A row \in VoteRows :
             VoteInserted(row)
             => IF state.poll # NoPoll /\ row.month_year = state.poll.month_year
                THEN /\ state' # state
                     /\ DOMAIN state'.voteCounts =
                           DOMAIN state.voteCounts \cup {row.van_id}
                     /\ state'.voteCounts[row.van_id] =
                           CountOf(state.voteCounts, row.van_id) + 1
                     /\ \A v \in DOMAIN state.voteCounts \ {row.van_id} :
                           state'.voteCounts[v] = state.voteCounts[v]
                ELSE state' = state]_vars

\* C5 witness: a vote-created event was applied while another option has a
\* count too.
C5_Witness ==
    /\ last.act = "VoteInserted" /\ Applied("COUNT_UPDATED")
    /\ \E v, w \in DOMAIN state.voteCounts :
          v # w /\ state.voteCounts[v] > 0 /\ state.voteCounts[w] > 0

\* C6: right after a poll-replace action the counts and percentages are
\* empty, the total is 0, the user's vote slot is clear, status is idle and
\* the counts are marked loading.
C6_PollReplaceResets ==
    Applied("POLL_REPLACED")
    => /\ state.voteCounts = EmptyMap
       /\ state.percentages = EmptyMap
       /\ state.totalVotes = 0
       /\ state.userVanId = NoId
       /\ state.status = "idle"
       /\ state.isLoadingCounts

\* C6 witness: a poll-replace action was applied to a state whose status was
\* "error" (the message is still in the error slot).
C6_Witness ==
    /\ Applied("POLL_REPLACED")
    /\ state.error # NoError

\* the cast_vote answer is a failure, and its message
RpcFailed(res) == res.error # NoError \/ res.dataError # NoError
RpcMessage(res) == IF res.error # NoError THEN res.error ELSE res.dataError

\* C7: a submit that completes with a transport error or with a business
\* error in its payload leaves status "error" and that failure's message in
\* the error slot, and leaves the user's vote slot and voteCounts alone.
C7_SubmitFailure ==
    [][\A vanId \in VanIds : \A res \in RpcResults :
          (Mounted /\ RpcFailed(res) /\ CastVoteReturned(vanId, res))
          => /\ state'.status = "error"
             /\ state'.error = RpcMessage(res)
             /\ state'.userVanId = state.userVanId
             /\ state'.voteCounts = state.voteCounts]_vars

\* C7 witness: a submit was rejected with a business error while the user's
\* vote slot was set and votes were counted.
C7_Witness ==
    /\ Applied("VOTE_ERROR")
    /\ state.status = "error"
    /\ state.error \in BusinessErrors
    /\ state.userVanId # NoId
    /\ state.totalVotes > 0

\* C8: a submit that completes without error leaves status "voted" and the
\* chosen option in the user's vote slot; no step of castVote changes
\* voteCounts, percentages or totalVotes.
C8_SubmitSuccess ==
    [][/\ \A vanId \in VanIds : CastVote(vanId) => TallyUnchanged
       /\ \A vanId \in VanIds : \A res \in RpcResults :
             CastVoteReturned(vanId, res)
             => /\ TallyUnchanged
                /\ (Mounted /\ ~RpcFailed(res))
                   => /\ state'.status = "voted"
                      /\ state'.userVanId = vanId]_vars

\* C8 witness: a submit succeeded and the chosen option's count is still 0.
C8_Witness ==
    /\ Applied("VOTE_SUCCESS")
    /\ state.status = "voted"
    /\ state.userVanId # NoId
    /\ CountOf(state.voteCounts, state.userVanId) = 0

\* C9: when the bootstrap's vans query fails after the poll query succeeded,
\* the session being alive, the fetched poll is on display with no options
\* and the poll-loading flag is cleared.
C9_PollShownWithoutVans ==
    [][\A res \in VansResults(bootPoll.id) :
          (Mounted /\ ~res.ok /\ BootstrapVans(res))
          => /\ state'.poll = bootPoll
             /\ state'.vans = << >>
             /\ ~state'.isLoadingPoll]_vars

\* C10: no realtime handler calls dispatch once the component is unmounted.
C10_NoDispatchAfterTeardown ==
    ~(/\ last.late
      /\ last.act \in {"VoteInserted", "VoteDeleted",
                       "PollChangedFetched", "VansChangedFetched"})

\* the callbacks of bootstrap() that call dispatch
BootstrapSteps ==
    {"BootstrapPoll", "BootstrapVans", "BootstrapCounts", "BootstrapVote"}

\* C11: once the unmount has set the cancellation flag, bootstrap() calls
\* dispatch no more, at whichever of its round-trips the unmount happened.
C11_NoBootstrapDispatchAfterTeardown ==
    ~(last.late /\ last.act \in BootstrapSteps)

\* C11 witness: bootstrap() had loaded the counts, the component was
\* unmounted during one of the last two round-trips, and bootstrap() has
\* returned at its cancellation check; no dispatch came after the unmount.
C11_Witness ==
    /\ cancelled
    /\ bootPc = "cancelled"
    /\ last.act = "BootstrapCounts"
    /\ ~last.late

\* ------------------------------------------------ derivePercentages alone
\* The counts mappings derivePercentages is called on: any keys, any
\* non-negative counts.
AggIds == 1..AggNumIds
AggInputs == UNION {[S -> 0..AggMaxCount] : S \in SUBSET AggIds}

AggInit ==
    /\ HookInit
    /\ aggCall \in {AggPending(counts) : counts \in AggInputs}
    /\ deltaRun = [states |-> <<initialState>>, trace |-> << >>]
    /\ store = [v \in {} |-> 0]
    /\ queue = << >>
    /\ snapshot = NotRead
    /\ skew = FALSE

\* derivePercentages(counts) is called and returns.
Aggregate ==
    /\ ~aggCall.called
    /\ aggCall' = [aggCall EXCEPT !.called = TRUE,
                                  !.result = derivePercentages(aggCall.counts)]
    /\ UNCHANGED <<hookVars, deltaRun, storeVars>>

AggNext == Aggregate

AggSpec == AggInit /\ [][AggNext]_vars

\* C12: for every mapping of option ids to non-negative counts,
\* derivePercentages returns the sum of the counts as the total and one
\* percentage per option; with a total of 0 every percentage is 0, and
\* otherwise each percentage is an integer nearest to 100 * count / total
\* (at most 1/2 away from it) and lies in 0..100.
C12_AggregatorResult ==
    aggCall.called
    => LET counts == aggCall.counts
           pct == aggCall.result.percentages
           total == aggCall.result.totalVotes
       IN /\ total = SumValues(counts)
          /\ DOMAIN pct = DOMAIN counts
          /\ \A id \in DOMAIN counts :
                IF total = 0 THEN pct[id] = 0
                ELSE /\ pct[id] \in 0..100
                     /\ 2 * total * pct[id] - 200 * counts[id] \in (0 - total)..total

\* C12 witness: derivePercentages was called on 23 votes out of 40, where the
\* double falls below 57.5, and returned 57.
C12_Witness ==
    /\ aggCall.called
    /\ aggCall.result.totalVotes = 40
    /\ \E id \in DOMAIN aggCall.counts :
          aggCall.counts[id] = 23 /\ aggCall.result.percentages[id] = 57

\* ------------------------------------------- the reducer on vote deltas
\* The states the deltas are applied to: any counts loaded for any vans.
DeltaStarts ==
    {CountsLoaded(initialState, [type |-> "COUNTS_LOADED", counts |-> counts]) :
        counts \in UNION {[S -> 0..MaxCount] : S \in SUBSET VanIds}}

DeltaInit ==
    /\ HookInit
    /\ aggCall = AggPending(EmptyMap)
    /\ deltaRun \in {[states |-> <<s>>, trace |-> << >>] : s \in DeltaStarts}
    /\ store = [v \in {} |-> 0]
    /\ queue = << >>
    /\ snapshot = NotRead
    /\ skew = FALSE

\* reducer(state, {type: "COUNT_UPDATED", vanId, delta}) on the state the
\* run has come to
ApplyDelta(vanId, delta) ==
    /\ Len(deltaRun.trace) < MaxTrace
    /\ LET a == [type |-> "COUNT_UPDATED", vanId |-> vanId, delta |-> delta]
           s == deltaRun.states[Len(deltaRun.states)]
       IN deltaRun' = [states |-> Append(deltaRun.states, reducer(s, a)),
                       trace |-> Append(deltaRun.trace, a)]
    /\ UNCHANGED <<hookVars, aggCall, storeVars>>

DeltaNext == \E vanId \in VanIds, delta \in {1, -1} : ApplyDelta(vanId, delta)

DeltaSpec == DeltaInit /\ [][DeltaNext]_vars

\* C13: a vote-created delta for an option followed at once by a vote-removed
\* delta for the same option brings that option's count back to what it was
\* (an absent count taken as 0) and leaves every other option's count as it
\* was.
C13_CreateThenRemove ==
    \A i \in 1..(Len(deltaRun.trace) - 1) :
       (/\ deltaRun.trace[i].delta = 1
        /\ deltaRun.trace[i + 1].delta = -1
        /\ deltaRun.trace[i + 1].vanId = deltaRun.trace[i].vanId)
       => LET v == deltaRun.trace[i].vanId
              before == deltaRun.states[i].voteCounts
              after == deltaRun.states[i + 2].voteCounts
          IN /\ CountOf(after, v) = CountOf(before, v)
             /\ DOMAIN after \ {v} = DOMAIN before \ {v}
             /\ \A w \in DOMAIN before \ {v} : after[w] = before[w]

\* C13 witness: the two deltas were applied for an option that had no count,
\* while another option had votes.
C13_Witness ==
    /\ Len(deltaRun.trace) = 2
    /\ deltaRun.trace[1].delta = 1
    /\ deltaRun.trace[2].delta = -1
    /\ deltaRun.trace[2].vanId = deltaRun.trace[1].vanId
    /\ deltaRun.trace[1].vanId \notin DOMAIN deltaRun.states[1].voteCounts
    /\ \E w \in DOMAIN deltaRun.states[1].voteCounts :
          deltaRun.states[1].voteCounts[w] > 0

\* C14: clear-error, applied to any state (also one whose status is
\* "submitting" or "voted"), sets status to idle and empties the error slot,
\* and leaves poll, options, voteCounts, percentages, totalVotes, the user's
\* vote slot and both loading flags as they were.
C14_ClearErrorFrame ==
    [][(Mounted /\ clearError)
       => /\ state'.status = "idle"
          /\ state'.error = NoError
          /\ state'.poll = state.poll
          /\ state'.vans = state.vans
          /\ TallyUnchanged
          /\ state'.userVanId = state.userVanId
          /\ state'.isLoadingPoll = state.isLoadingPoll
          /\ state'.isLoadingCounts = state.isLoadingCounts]_vars

\* C14 witness: clear-error was applied while a submit was in flight, the
\* user's vote slot was set and votes were counted.
C14_Witness ==
    /\ last.act = "clearError" /\ Applied("CLEAR_ERROR")
    /\ InFlight(rpc) > 0
    /\ state.userVanId # NoId
    /\ state.totalVotes > 0

\* ------------------------------------------- the hook and the vote store
\* One poll stays on display with all its vans; the store's votes of its
\* period are written by any client, and every write is notified once, in
\* the order of the writes.  bootstrap() succeeds at every step; its
\* vote_counts query reads the store at some moment between the request and
\* the answer.
ShownPoll == PollById(1)
ShownVans == VansOf(ShownPoll.id)

StoreInit ==
    /\ HookInit
    /\ aggCall = AggPending(EmptyMap)
    /\ deltaRun = [states |-> <<initialState>>, trace |-> << >>]
    /\ store \in [ShownVans -> 0..MaxCount]
    /\ queue = << >>
    /\ snapshot = NotRead
    /\ skew = FALSE

StoreBootstrapPoll ==
    /\ BootstrapPoll(ShownPoll, FALSE)
    /\ UNCHANGED <<aggCall, deltaRun, storeVars>>

StoreBootstrapVans ==
    /\ BootstrapVans([ok |-> TRUE, vans |-> Ordered(ShownVans)])
    /\ UNCHANGED <<aggCall, deltaRun, storeVars>>

\* the vote_counts view is read for the query of step 1c
StoreReadCounts ==
    /\ bootPc = "counts"
    /\ ~snapshot.read
    /\ snapshot' = [read |-> TRUE,
                    rows |-> [v \in {w \in ShownVans : store[w] > 0} |-> store[v]]]
    /\ UNCHANGED <<hookVars, aggCall, deltaRun, store, queue, skew>>

\* 1c continues with the rows that were read
StoreBootstrapCounts ==
    /\ snapshot.read
    /\ BootstrapCounts(TRUE, snapshot.rows)
    /\ UNCHANGED <<aggCall, deltaRun, storeVars>>

StoreBootstrapUser(user) ==
    /\ BootstrapUser(user)
    /\ UNCHANGED <<aggCall, deltaRun, storeVars>>

StoreBootstrapVote(vanId) ==
    /\ BootstrapVote(vanId)
    /\ UNCHANGED <<aggCall, deltaRun, storeVars>>

\* some client's vote for van v of the period is inserted (delta 1) or
\* deleted (delta -1) in the store; the notification is queued
StoreVoteWritten(v, delta) ==
    /\ v \in ShownVans
    /\ Len(queue) < MaxQueue
    /\ IF delta = 1 THEN store[v] < MaxCount ELSE store[v] > 0
    /\ store' = [store EXCEPT ![v] = @ + delta]
    /\ queue' = Append(queue, [van_id |-> v, delta |-> delta,
                               afterRead |-> snapshot.read])
    /\ UNCHANGED <<hookVars, aggCall, deltaRun, snapshot, skew>>

\* the oldest notification reaches the votes channel: the INSERT or DELETE
\* callback runs on it
StoreDeliver ==
    /\ queue # << >>
    /\ LET n == Head(queue)
           row == [van_id |-> n.van_id, month_year |-> ShownPoll.month_year]
           loaded == bootPc \in {"user", "vote", "done"}
       IN /\ IF n.delta = 1 THEN OnVoteInsert(row) ELSE OnVoteDelete(row)
          /\ skew' = (skew \/ n.afterRead # loaded)
    /\ queue' = Tail(queue)
    /\ UNCHANGED <<cancelled, bootPc, bootPoll, bootVans, pollsFetch, vansFetch,
                   rpc, aggCall, deltaRun, store, snapshot>>

StoreNext ==
    \/ StoreBootstrapPoll
    \/ StoreBootstrapVans
    \/ StoreReadCounts
    \/ StoreBootstrapCounts
    \/ \E user \in BOOLEAN : StoreBootstrapUser(user)
    \/ \E vanId \in {NoId} \cup ShownVans : StoreBootstrapVote(vanId)
    \/ \E v \in ShownVans, delta \in {1, -1} : StoreVoteWritten(v, delta)
    \/ StoreDeliver

StoreSpec == StoreInit /\ [][StoreNext]_vars

\* voteCounts shows for every van on display the votes the store holds
TallyIsStore == \A v \in ShownVans : CountOf(state.voteCounts, v) = store[v]

\* C15 (as claimed): with the poll and its options fixed and a bootstrap
\* that succeeds, once bootstrap() has finished and every notification is
\* delivered, voteCounts equals the store's counts, however the vote_counts
\* read and the COUNTS_LOADED dispatch interleave with the vote events.
C15_TallyMatchesStore ==
    (bootPc = "done" /\ queue = << >>) => TallyIsStore

\* C15 (amended): the same, provided every vote written before the
\* vote_counts read was notified before the COUNTS_LOADED dispatch and every
\* vote written after the read was notified after that dispatch.
C15_TallyMatchesStoreUnskewed ==
    (bootPc = "done" /\ queue = << >> /\ ~skew) => TallyIsStore

\* C15 witness: bootstrap() has finished, a vote-created event was the last
\* to be applied, nothing is left to deliver, no notification was on the
\* wrong side, and the store holds votes.
C15_Witness ==
    /\ bootPc = "done" /\ queue = << >> /\ ~skew
    /\ last.act = "VoteInserted" /\ Applied("COUNT_UPDATED")
    /\ \E v \in ShownVans : store[v] > 0

\* C16: the option-list-change handler never changes which poll is on
\* display, also when a poll-change event has replaced the displayed poll
\* while the handler's re-fetch was in flight.
C16_VansChangeKeepsPoll ==
    [][\A id \in PollIds : \A res \in VansResults(id) :
          (Mounted /\ VansChangedFetched(id, res))
          => state'.poll = state.poll]_vars

\* C18: when bootstrap() finds no active poll, or its poll query fails, it
\* dispatches no-active-poll and nothing after it; the state that results
\* has no poll, no options, empty voteCounts and both loading flags cleared.
C18_NoActivePoll ==
    [][/\ \A poll \in Polls \cup {NoPoll} : \A pollErr \in BOOLEAN :
             (Mounted /\ (pollErr \/ poll = NoPoll) /\ BootstrapPoll(poll, pollErr))
             => /\ last' = [act |-> "BootstrapPoll", type |-> "NO_ACTIVE_POLL",
                            late |-> FALSE]
                /\ state'.poll = NoPoll
                /\ state'.vans = << >>
                /\ state'.voteCounts = EmptyMap
                /\ ~state'.isLoadingPoll
                /\ ~state'.isLoadingCounts
                /\ bootPc' = "done"
       /\ bootPc = "done"
             => /\ bootPc' = "done"
                /\ last' # last => last'.act \notin BootstrapSteps]_vars

\* C18 witness: bootstrap() dispatched no-active-poll and has returned.
C18_Witness ==
    /\ last.act = "BootstrapPoll" /\ Applied("NO_ACTIVE_POLL")
    /\ bootPc = "done"
    /\ state.poll = NoPoll
    /\ ~state.isLoadingPoll /\ ~state.isLoadingCounts

\* C19: in every reachable state the error slot holds a message only while
\* status is "error".
C19_ErrorOnlyInErrorStatus ==
    state.error # NoError => state.status = "error"

\* C20: once a submit has succeeded and recorded its option as the user's
\* vote, the slot keeps it until a poll-replace action: bootstrap's
\* existing-vote lookup that completes after the submit, with the answer "no
\* vote" read before the vote was written, neither clears the slot nor sets
\* status back to idle.
C20_VoteKeptAfterLateLookup ==
    [][(/\ Mounted
        /\ last.act = "CastVoteReturned" /\ Applied("VOTE_SUCCESS")
        /\ BootstrapVote(NoId))
       => /\ state'.userVanId = state.userVanId
          /\ state'.status = state.status]_vars

\* C17: every castVote dispatches submitting first and, when cast_vote has
\* returned, exactly one of vote-succeeded and vote-failed, and nothing more;
\* so, every cast_vote call returning, a state of the live session whose
\* status is "submitting" is always followed by one whose status is not.
C17_SubmitCompletes ==
    /\ [][/\ \A vanId \in VanIds :
                CastVote(vanId)
                => /\ last' = [act |-> "CastVote", type |-> "SUBMITTING",
                               late |-> FALSE]
                   /\ state'.status = "submitting"
                   /\ InFlight(rpc') = InFlight(rpc) + 1
          /\ \A vanId \in VanIds : \A res \in RpcResults :
                CastVoteReturned(vanId, res)
                => /\ last'.act = "CastVoteReturned"
                   /\ last'.type \in {"VOTE_SUCCESS", "VOTE_ERROR"}
                   /\ last'.type = "VOTE_ERROR" <=> RpcFailed(res)
                   /\ InFlight(rpc') = InFlight(rpc) - 1]_vars
    /\ (Mounted /\ state.status = "submitting")
          ~> (~Mounted \/ state.status # "submitting")

\* C17 witness: a submit was made and its cast_vote has returned; the one
\* dispatch that followed took the status from "submitting" to "error", and
\* no call is in flight.
C17_Witness ==
    /\ last.act = "CastVoteReturned" /\ Applied("VOTE_ERROR")
    /\ state.status = "error"
    /\ state.error \in TransportErrors
    /\ InFlight(rpc) = 0

=============================================================================
